---- MODULE Spec2Model ----
(***************************************************************************)
(* The lovelace card host (hui-card) and the child card it owns.           *)
(*                                                                         *)
(* One action of the model is one handler of the host run to completion:   *)
(* a property setter, the reactive update cycle (willUpdate + update),     *)
(* connectedCallback, disconnectedCallback, the three listeners the host   *)
(* puts on a child, and the media-query callback.  The host's methods are   *)
(* operators over a record S of the mutable state, in the order of the     *)
(* statements of the source; S.exc carries a raised exception outwards.    *)
(*                                                                         *)
(* After the first connect a property assignment and the update cycle it   *)
(* schedules are one action (Update): several properties assigned in one   *)
(* task reach update together in changedProps.  The isPanel and layout     *)
(* properties and the copy of preview pushed into the child are left out:  *)
(* the host only hands them to the child and reads none of them back.      *)
(* handler, trace and escaped record what the last handler did; they are   *)
(* written by every action and read by none.                               *)
(*                                                                         *)
(* The tile card (hui-tile-card) is the second part: its methods are       *)
(* operators on the optional values this._config and this.hass, and        *)
(* SpecTile applies them to a configuration drawn in the initial state.    *)
(* Spec leaves the tile's variables alone and SpecTile the host's.         *)
(***************************************************************************)
EXTENDS Integers, Sequences, FiniteSets, TLC

\* Bounds of the model.
MaxInst == 2      \* card instances created over one behaviour
MaxSubs == 2      \* media-query subscription ids in use at one time

\* ------------------------------------------------------------------------
\* Values

NoHass == "none"                       \* hass === undefined
HassValues == {"h_on", "h_bad"}

ConfigError == "Specify an entity"
HassError == "hass update failed"
LoadError == "Cannot build card without config"

\* A configuration object.  id is the object identity (update compares
\* configurations by reference), entity says whether an entity id is
\* given, fragile marks a card whose hass setter raises on the snapshot
\* "h_bad", hasVis says whether the visibility key is present.
Cfg(id, type, entity, fragile, hasVis, vis) ==
  [id |-> id, type |-> type, entity |-> entity, fragile |-> fragile,
   hasVis |-> hasVis, visibility |-> vis, error |-> ""]

NoConfig == Cfg(0, "undefined", FALSE, FALSE, FALSE, <<>>)

Configs ==
  { Cfg(1, "tile", TRUE, FALSE, FALSE, <<>>),
    Cfg(2, "tile", TRUE, TRUE, TRUE, <<"screen", "state">>),
    Cfg(3, "tile", FALSE, FALSE, FALSE, <<>>),
    Cfg(4, "entity", TRUE, FALSE, TRUE, <<"screen">>) }

createErrorCardConfig(message) ==
  [id |-> 100, type |-> "error", entity |-> FALSE, fragile |-> FALSE,
   hasVis |-> FALSE, visibility |-> <<>>, error |-> message]

\* ------------------------------------------------------------------------
\* State

VARIABLES
  preview,         \* this.preview
  config,          \* this.config
  hass,            \* this.hass
  _element,        \* this._element: number of the instance, 0 when undefined
  card,            \* the object this._element refers to
  _elementConfig,  \* this._elementConfig
  _listeners,      \* this._listeners: ids of the unsubscribe handles held
  hidden,          \* the host's hidden attribute
  children,        \* the host's child nodes (instance numbers)
  instances,       \* per instance created: the listeners the host put on it
  subs,            \* media-query listeners currently registered
  mq,              \* whether the media query currently matches
  dblUnsub,        \* an unsubscribe handle was called a second time
  connected,       \* the host is in the document
  started,         \* updates are enabled (after the first connect)
  pending,         \* an update cycle is scheduled
  dirty,           \* changedProps of the scheduled update
  handler,         \* the handler that ran last
  trace,           \* calls and events made by the handler that ran last
  escaped,         \* message of the exception that left it, "" if none
  tileInput,       \* tile card: the configuration its owner passes to it
  _config,         \* tile card: this._config, <<>> when undefined
  tileHass,        \* tile card: this.hass, <<>> when undefined
  tileCall         \* tile card: the last call made on it and what it returned

hostVars == <<preview, config, hass, _element, card, _elementConfig,
              _listeners, hidden, children, instances, subs, mq, dblUnsub,
              connected, started, pending, dirty, handler, trace, escaped>>

tileVars == <<tileInput, _config, tileHass, tileCall>>

vars == <<hostVars, tileVars>>

\* ------------------------------------------------------------------------
\* Helpers

Range(s) == {s[i] : i \in 1..Len(s)}

RemoveFrom(s, x) == SelectSeq(s, LAMBDA y : y # x)

Entry(op, el, cfg, val, flag, site) ==
  [op |-> op, el |-> el, cfg |-> cfg, val |-> val, flag |-> flag,
   site |-> site]

Log(S, e) == [S EXCEPT !.trace = Append(@, e)]

Entries(tr, op) == SelectSeq(tr, LAMBDA e : e.op = op)

\* ------------------------------------------------------------------------
\* The child card

\* setConfig of a card: raises when no entity id is given.  The error
\* card takes any configuration.
ElementRejectsConfig(el, cfg) == el.type # "error" /\ ~cfg.entity

\* The hass setter of a card.
ElementRejectsHass(el, h) ==
  el.type # "error" /\ el.cfg.fragile /\ h = "h_bad"

NewElement(type, cfg, error) ==
  [type |-> type, cfg |-> cfg, hidden |-> FALSE, error |-> error]

NoElement == NewElement("undefined", NoConfig, "")

\* The listeners of _loadElement on one instance: config is the parameter
\* the ll-rebuild listener closes over, on says that the listeners were
\* added, up and rb that the once-listeners have not run yet.
NoListeners == [config |-> NoConfig, on |-> FALSE, up |-> FALSE, rb |-> FALSE]

\* The element factory: the card of the configured type, or an error card
\* carrying the message when the type is "error" or the card's setConfig
\* rejects the configuration.
createCardElement(cfg) ==
  IF cfg.type = "error" THEN NewElement("error", cfg, cfg.error)
  ELSE IF ~cfg.entity THEN NewElement("error", cfg, ConfigError)
  ELSE NewElement(cfg.type, cfg, "")

\* Condition evaluation: every condition of the list holds.
checkConditionsMet(conditions, h, m) ==
  \A i \in 1..Len(conditions) :
    IF conditions[i] = "screen" THEN m ELSE h = "h_on"

\* ------------------------------------------------------------------------
\* The host's methods

fireEvent(S, name, value) ==
  Log(S, Entry("fire", 0, NoConfig, name, value, ""))

\* variant: the notification carries the hidden flag
_setElementVisibility_HiddenPayload(S, visible) ==
  IF S.element = 0 THEN S
  ELSE
    LET S1 == IF S.hidden # ~visible
              THEN fireEvent([S EXCEPT !.hidden = ~visible],
                             "card-visibility-changed", ~visible)
              ELSE S
        attached == S1.element \in Range(S1.children)
    IN  IF ~visible /\ attached
        THEN [S1 EXCEPT !.children = RemoveFrom(@, S1.element)]
        ELSE IF visible /\ ~attached
        THEN [S1 EXCEPT !.children = Append(@, S1.element)]
        ELSE S1

\* variant: the notification is fired on every evaluation
_setElementVisibility_FiresAlways(S, visible) ==
  IF S.element = 0 THEN S
  ELSE
    LET S1 == fireEvent([S EXCEPT !.hidden = ~visible],
                        "card-visibility-changed", visible)
        attached == S1.element \in Range(S1.children)
    IN  IF ~visible /\ attached
        THEN [S1 EXCEPT !.children = RemoveFrom(@, S1.element)]
        ELSE IF visible /\ ~attached
        THEN [S1 EXCEPT !.children = Append(@, S1.element)]
        ELSE S1

_setElementVisibility(S, visible) ==
  IF S.element = 0 THEN S
  ELSE
    LET S1 == IF S.hidden # ~visible
              THEN fireEvent([S EXCEPT !.hidden = ~visible],
                             "card-visibility-changed", visible)
              ELSE S
        attached == S1.element \in Range(S1.children)
    IN  IF ~visible /\ attached
        THEN [S1 EXCEPT !.children = RemoveFrom(@, S1.element)]
        ELSE IF visible /\ ~attached
        THEN [S1 EXCEPT !.children = Append(@, S1.element)]
        ELSE S1

\* variant: a forced evaluation overrides the child's hidden flag
_updateVisibility_ForceFirst(S, forceVisible) ==
  IF S.element = 0 \/ S.hass = NoHass THEN S
  ELSE
    LET S1 == Log(S, Entry("vis", S.element, NoConfig, "", forceVisible, ""))
    IN  IF S1.card.hidden /\ ~forceVisible
        THEN _setElementVisibility(S1, FALSE)
        ELSE _setElementVisibility(S1,
               forceVisible
               \/ S1.preview
               \/ ~S1.config.hasVis
               \/ checkConditionsMet(S1.config.visibility, S1.hass, S1.mq))

_updateVisibility(S, forceVisible) ==
  IF S.element = 0 \/ S.hass = NoHass THEN S
  ELSE
    LET S1 == Log(S, Entry("vis", S.element, NoConfig, "", forceVisible, ""))
    IN  IF S1.card.hidden
        THEN _setElementVisibility(S1, FALSE)
        ELSE _setElementVisibility(S1,
               forceVisible
               \/ S1.preview
               \/ ~S1.config.hasVis
               \/ checkConditionsMet(S1.config.visibility, S1.hass, S1.mq))

\* element.hass = this.hass, at the call site named
PushHass(S, site) ==
  IF ElementRejectsHass(S.card, S.hass)
  THEN [Log(S, Entry("hass", S.element, NoConfig, S.hass, FALSE, site))
          EXCEPT !.exc = HassError]
  ELSE Log(S, Entry("hass", S.element, NoConfig, S.hass, TRUE, site))

_loadElement(S, cfg, site) ==
  LET id == Len(S.instances) + 1
      S1 == [Log(S, Entry("create", id, cfg, "",
                          cfg.type = "error" \/ cfg.entity, site))
               EXCEPT !.instances = Append(@, NoListeners),
                      !.element = id,
                      !.card = createCardElement(cfg),
                      !.elementConfig = cfg]
      S2 == IF S1.hass # NoHass THEN PushHass(S1, "load") ELSE S1
  IN  IF S2.exc # "" THEN S2
      ELSE
        LET S3 == [S2 EXCEPT !.instances[id] =
                               [config |-> cfg, on |-> TRUE,
                                up |-> TRUE, rb |-> TRUE],
                             !.children = <<>>]
        IN  _updateVisibility(S3, FALSE)

_updateElement(S, cfg) ==
  IF S.element = 0 THEN S
  ELSE IF ElementRejectsConfig(S.card, cfg)
  THEN [Log(S, Entry("setConfig", S.element, cfg, "", FALSE, "updateElement"))
          EXCEPT !.exc = ConfigError]
  ELSE fireEvent(
         [Log(S, Entry("setConfig", S.element, cfg, "", TRUE, "updateElement"))
            EXCEPT !.card.cfg = cfg,
                   !.elementConfig = cfg],
         "card-updated", TRUE)

load(S) ==
  IF S.config = NoConfig THEN [S EXCEPT !.exc = LoadError]
  ELSE _loadElement(S, S.config, "load")

willUpdate(S) == IF S.element = 0 THEN load(S) ELSE S

\* variant: preview mode does not force the rebuild
UpdateConfig_IgnoresPreview(S, changedProps) ==
  IF "config" \in changedProps
     /\ S.config # S.elementConfig /\ S.config # NoConfig
  THEN IF S.config.type # S.elementConfig.type
       THEN _loadElement(S, S.config, "update.config")
       ELSE _updateElement(S, S.config)
  ELSE S

\* update, lines 150-162
UpdateConfig(S, changedProps) ==
  IF "config" \in changedProps
     /\ S.config # S.elementConfig /\ S.config # NoConfig
  THEN LET typeChanged == S.config.type # S.elementConfig.type \/ S.preview
       IN  IF typeChanged \/ S.preview
           THEN _loadElement(S, S.config, "update.config")
           ELSE _updateElement(S, S.config)
  ELSE S

\* variant: the push is not guarded
UpdateHass_NoCatch(S, changedProps) ==
  IF "hass" \in changedProps /\ S.hass # NoHass
  THEN PushHass(S, "update")
  ELSE S

\* update, lines 163-171
UpdateHass(S, changedProps) ==
  IF "hass" \in changedProps /\ S.hass # NoHass
  THEN LET S1 == PushHass(S, "update")
       IN  IF S1.exc # ""
           THEN _loadElement([S1 EXCEPT !.exc = ""],
                             createErrorCardConfig(S1.exc), "update.hass")
           ELSE S1
  ELSE S

update(S, changedProps) ==
  LET S1 == IF S.element # 0 THEN UpdateConfig(S, changedProps) ELSE S
      S2 == IF S1.exc # "" \/ S1.element = 0 THEN S1
            ELSE UpdateHass(S1, changedProps)
  IN  IF S2.exc # "" THEN S2
      ELSE IF "hass" \in changedProps \/ "preview" \in changedProps
      THEN _updateVisibility(S2, FALSE)
      ELSE S2

\* one unsubscribe handle called
Unsub(S, id) ==
  LET S1 == Log(S, Entry("unsub", id, NoConfig, "", TRUE, ""))
  IN  IF \E i \in 1..Len(S1.subs) : S1.subs[i].id = id
      THEN [S1 EXCEPT !.subs = SelectSeq(@, LAMBDA s : s.id # id)]
      ELSE [S1 EXCEPT !.dbl = TRUE]

RECURSIVE UnsubAll(_, _)
UnsubAll(S, ids) ==
  IF ids = <<>> THEN S ELSE UnsubAll(Unsub(S, Head(ids)), Tail(ids))

\* variant: the handles are called but kept
_clearMediaQueries_KeepsHandles(S) == UnsubAll(S, S.listeners)

_clearMediaQueries(S) ==
  [UnsubAll(S, S.listeners) EXCEPT !.listeners = <<>>]

FreeSubId(S) ==
  CHOOSE n \in 1..(MaxSubs + 1) :
    /\ n \notin {S.subs[i].id : i \in 1..Len(S.subs)} \cup Range(S.listeners)
    /\ \A k \in 1..(n - 1) :
         k \in {S.subs[i].id : i \in 1..Len(S.subs)} \cup Range(S.listeners)

\* One listener per screen condition of the list; returns the state with
\* the listeners registered and their unsubscribe handles in S.listeners.
RECURSIVE attachConditionMediaQueriesListeners(_, _, _, _)
attachConditionMediaQueriesListeners(S, conditions, i, only) ==
  IF i > Len(conditions) THEN S
  ELSE IF conditions[i] # "screen"
  THEN attachConditionMediaQueriesListeners(S, conditions, i + 1, only)
  ELSE
    LET id == FreeSubId(S)
        S1 == [Log(S, Entry("sub", id, NoConfig, "", only, ""))
                 EXCEPT !.subs = Append(@, [id |-> id, only |-> only,
                                            conds |-> conditions]),
                        !.listeners = Append(@, id)]
    IN  attachConditionMediaQueriesListeners(S1, conditions, i + 1, only)

_listenMediaQueries(S) ==
  LET S1 == _clearMediaQueries(S)
  IN  IF ~S1.config.hasVis THEN S1
      ELSE
        LET conditions == S1.config.visibility
            hasOnlyMediaQuery ==
              Len(conditions) = 1 /\ conditions[1] = "screen"
        IN  attachConditionMediaQueriesListeners(
              S1, conditions, 1, hasOnlyMediaQuery)

connectedCallback(S) == _updateVisibility(_listenMediaQueries(S), FALSE)

disconnectedCallback(S) == _clearMediaQueries(S)

\* the callback of one registered listener
MediaCallback(S, sub, matches) == _updateVisibility(S, sub.only /\ matches)

RECURSIVE MediaCallbacks(_, _, _)
MediaCallbacks(S, ss, matches) ==
  IF ss = <<>> THEN S
  ELSE MediaCallbacks(MediaCallback(S, Head(ss), matches), Tail(ss), matches)

\* the host's listener for ll-upgrade on a child
OnUpgrade(S) ==
  LET S1 == IF S.hass # NoHass THEN PushHass(S, "upgrade") ELSE S
  IN  IF S1.exc # "" THEN S1 ELSE fireEvent(S1, "card-updated", TRUE)

\* the host's listener for ll-rebuild on the child loaded from cfg
OnRebuild(S, cfg) ==
  LET S1 == _loadElement(S, cfg, "rebuild")
  IN  IF S1.exc # "" THEN S1 ELSE fireEvent(S1, "card-updated", TRUE)

\* ------------------------------------------------------------------------
\* Actions

Cur ==
  [preview |-> preview, config |-> config, hass |-> hass,
   element |-> _element, card |-> card, elementConfig |-> _elementConfig,
   listeners |-> _listeners, hidden |-> hidden, children |-> children,
   instances |-> instances, subs |-> subs, mq |-> mq, dbl |-> dblUnsub,
   trace |-> <<>>, exc |-> ""]

Commit(R) ==
  /\ Len(R.instances) <= MaxInst
  /\ Len(R.subs) <= MaxSubs
  /\ preview' = R.preview
  /\ config' = R.config
  /\ hass' = R.hass
  /\ _element' = R.element
  /\ _elementConfig' = R.elementConfig
  /\ _listeners' = R.listeners
  /\ hidden' = R.hidden
  /\ children' = R.children
  /\ instances' = R.instances
  /\ card' = R.card
  /\ subs' = R.subs
  /\ mq' = R.mq
  /\ dblUnsub' = R.dbl
  /\ trace' = R.trace
  /\ escaped' = R.exc
  /\ UNCHANGED tileVars

Ran(name, el) == handler' = [name |-> name, el |-> el]

HostInit ==
  /\ preview = FALSE
  /\ config = NoConfig
  /\ hass = NoHass
  /\ _element = 0
  /\ _elementConfig = NoConfig
  /\ _listeners = <<>>
  /\ hidden = FALSE
  /\ children = <<>>
  /\ instances = <<>>
  /\ card = NoElement
  /\ subs = <<>>
  /\ mq \in BOOLEAN
  /\ dblUnsub = FALSE
  /\ connected = FALSE
  /\ started = FALSE
  /\ pending = TRUE
  /\ dirty = {}
  /\ handler = [name |-> "constructor", el |-> 0]
  /\ trace = <<>>
  /\ escaped = ""

\* the tile card before its owner has touched it
TileIdle ==
  /\ _config = <<>>
  /\ tileHass = <<>>
  /\ tileCall = [op |-> "constructor", arg |-> <<>>, ret |-> <<>>, exc |-> ""]

Init ==
  /\ HostInit
  /\ tileInput = <<>>
  /\ TileIdle

\* Before the first connect the reactive element does not update: the
\* setters only store the value and record the property as changed.
SetConfig ==
  \E c \in Configs :
    /\ ~started
    /\ c # config
    /\ Commit([Cur EXCEPT !.config = c])
    /\ dirty' = dirty \cup {"config"}
    /\ Ran("set config", 0)
    /\ UNCHANGED <<connected, started, pending>>

SetHass ==
  \E h \in HassValues :
    /\ ~started
    /\ h # hass
    /\ Commit([Cur EXCEPT !.hass = h])
    /\ dirty' = dirty \cup {"hass"}
    /\ Ran("set hass", 0)
    /\ UNCHANGED <<connected, started, pending>>

SetPreview ==
  /\ ~started
  /\ Commit([Cur EXCEPT !.preview = ~preview])
  /\ dirty' = dirty \cup {"preview"}
  /\ Ran("set preview", 0)
  /\ UNCHANGED <<connected, started, pending>>

\* willUpdate, then update
PerformUpdate(S, changedProps) ==
  LET S1 == willUpdate(S)
  IN  IF S1.exc # "" THEN S1 ELSE update(S1, changedProps)

\* the first update cycle, requested by the constructor
FirstUpdate ==
  /\ started /\ pending
  /\ Commit(PerformUpdate(Cur, dirty))
  /\ dirty' = {}
  /\ pending' = FALSE
  /\ Ran("update", 0)
  /\ UNCHANGED <<connected, started>>

\* Later on: properties are assigned and the update cycle they schedule
\* runs with the assigned properties as changedProps.
Update ==
  \E c \in Configs, h \in HassValues \cup {NoHass}, p \in BOOLEAN :
    LET changedProps == (IF c # config THEN {"config"} ELSE {})
                          \cup (IF h # hass THEN {"hass"} ELSE {})
                          \cup (IF p # preview THEN {"preview"} ELSE {})
    IN  /\ started /\ ~pending
        /\ changedProps # {}
        /\ Commit(PerformUpdate(
                    [Cur EXCEPT !.config = c, !.hass = h, !.preview = p],
                    changedProps))
        /\ Ran("update", 0)
        /\ UNCHANGED <<connected, started, pending, dirty>>

\* host.load(), called by the owner of the host
Load ==
  /\ Commit(load(Cur))
  /\ Ran("load", 0)
  /\ UNCHANGED <<connected, started, pending, dirty>>

Connect ==
  /\ ~connected
  /\ Commit(connectedCallback(Cur))
  /\ connected' = TRUE
  /\ started' = TRUE
  /\ Ran("connect", 0)
  /\ UNCHANGED <<pending, dirty>>

Disconnect ==
  /\ connected
  /\ Commit(disconnectedCallback(Cur))
  /\ connected' = FALSE
  /\ Ran("disconnect", 0)
  /\ UNCHANGED <<started, pending, dirty>>

\* the media query starts or stops matching; every registered listener runs
MediaChange ==
  /\ LET S0 == [Cur EXCEPT !.mq = ~mq]
     IN  Commit(MediaCallbacks(S0, S0.subs, S0.mq))
  /\ Ran("media", 0)
  /\ UNCHANGED <<connected, started, pending, dirty>>

\* a card instance flips its hidden attribute and fires
\* card-visibility-changed
ChildVisibility ==
  \E e \in 1..Len(instances) :
    /\ LET S0 == IF e = _element THEN [Cur EXCEPT !.card.hidden = ~@] ELSE Cur
       IN  Commit(IF instances[e].on THEN _updateVisibility(S0, FALSE) ELSE S0)
    /\ Ran("card-visibility-changed", e)
    /\ UNCHANGED <<connected, started, pending, dirty>>

\* a card instance fires ll-upgrade (listener registered with once)
ChildUpgrade ==
  \E e \in 1..Len(instances) :
    /\ instances[e].up
    /\ Commit(OnUpgrade([Cur EXCEPT !.instances[e].up = FALSE]))
    /\ Ran("ll-upgrade", e)
    /\ UNCHANGED <<connected, started, pending, dirty>>

\* a card instance fires ll-rebuild (listener registered with once)
ChildRebuild ==
  \E e \in 1..Len(instances) :
    /\ instances[e].rb
    /\ Commit(OnRebuild([Cur EXCEPT !.instances[e].rb = FALSE],
                        instances[e].config))
    /\ Ran("ll-rebuild", e)
    /\ UNCHANGED <<connected, started, pending, dirty>>

Next ==
  \/ SetConfig
  \/ SetHass
  \/ SetPreview
  \/ FirstUpdate
  \/ Update
  \/ Load
  \/ Connect
  \/ Disconnect
  \/ MediaChange
  \/ ChildVisibility
  \/ ChildUpgrade
  \/ ChildRebuild

Spec == Init /\ [][Next]_vars

\* ------------------------------------------------------------------------
\* The tile card (hui-tile-card)
\*
\* An optional value is a sequence: <<>> when undefined, <<v>> otherwise.
\* An object is a function on the keys it has.  An entity id is the
\* sequence of its parts, the "." included; "" is the empty sequence.

MaxKeys == 2        \* optional keys in one tile configuration
MaxFeatures == 2    \* feature rows in one tile configuration

Opt(values) == {<<>>} \cup {<<v>> : v \in values}

Field(k, o) == IF Len(o) = 0 THEN <<>> ELSE k :> o[1]

Has(obj, k) == k \in DOMAIN obj

\* obj?.k
Prop(o, k) ==
  IF Len(o) = 0 THEN <<>>
  ELSE IF Has(o[1], k) THEN <<o[1][k]>> ELSE <<>>

EntityId(domain) == <<domain, ".", "a">>

TileEntities ==
  {<<>>} \cup {EntityId(d) : d \in {"light", "switch", "sensor", "person",
                                    "scene", "button", "input_button"}}

Action(a) == [action |-> a]

RECURSIVE FeatureRows(_)
FeatureRows(n) ==
  IF n = 0 THEN <<>> ELSE Append(FeatureRows(n - 1), [type |-> "feature"])

\* the configurations an owner may pass: any entity key or none, and at
\* most MaxKeys of the optional keys
TileConfigs ==
  LET choices ==
        { x \in Opt(TileEntities)
                  \X Opt({Action("none"), Action("navigate")})
                  \X Opt({Action("none")})
                  \X Opt({Action("toggle")})
                  \X Opt({Action("toggle")})
                  \X Opt(BOOLEAN)
                  \X Opt({FeatureRows(n) : n \in 0..MaxFeatures})
                  \X Opt({"red"}) :
            Len(x[2]) + Len(x[3]) + Len(x[4]) + Len(x[5]) + Len(x[6])
              + Len(x[7]) + Len(x[8]) <= MaxKeys }
  IN  { Field("entity", x[1]) @@ Field("tap_action", x[2])
          @@ Field("icon_tap_action", x[3]) @@ Field("hold_action", x[4])
          @@ Field("double_tap_action", x[5]) @@ Field("vertical", x[6])
          @@ Field("features", x[7]) @@ Field("color", x[8]) : x \in choices }

\* the configurations without an entity id: none given, and the empty one
TileNoEntity == {<<>>, Field("entity", <<<<>>>>)}

\* the attribute rgb_color of a light
LightRgb == {<<255, 255, 255>>, <<255, 204, 204>>, <<255, 0, 0>>}

StateObj(entityId, state, rgb) ==
  [entity_id |-> entityId, state |-> state,
   attributes |-> Field("rgb_color", rgb)]

\* hass objects: no entity, or one live entity
TileHassValues ==
  {[states |-> <<>>]}
    \cup {[states |-> EntityId("light") :> StateObj(EntityId("light"), s, c)] :
            s \in {"on", "off"}, c \in Opt(LightRgb)}
    \cup {[states |-> EntityId(d) :> StateObj(EntityId(d), "on", <<>>)] :
            d \in {"person", "sensor"}}

\* the prefix of the entity id before its first "."
computeDomain(entityId) ==
  IF \E i \in 1..Len(entityId) : entityId[i] = "."
  THEN LET dot == CHOOSE i \in 1..Len(entityId) :
                    /\ entityId[i] = "."
                    /\ \A j \in 1..(i - 1) : entityId[j] # "."
       IN  SubSeq(entityId, 1, dot - 1)
  ELSE <<>>

DOMAINS_TOGGLE ==
  {<<"fan">>, <<"input_boolean">>, <<"light">>, <<"switch">>, <<"group">>,
   <<"automation">>, <<"humidifier">>, <<"valve">>}

\* variant: a scene has no icon action
getEntityDefaultTileIconAction_NoScene(entityId) ==
  LET domain == computeDomain(entityId)
      supportsIconAction ==
        \/ domain \in DOMAINS_TOGGLE
        \/ domain \in {<<"button">>, <<"input_button">>}
  IN  IF supportsIconAction THEN "toggle" ELSE "more-info"

getEntityDefaultTileIconAction(entityId) ==
  LET domain == computeDomain(entityId)
      supportsIconAction ==
        \/ domain \in DOMAINS_TOGGLE
        \/ domain \in {<<"button">>, <<"input_button">>, <<"scene">>}
  IN  IF supportsIconAction THEN "toggle" ELSE "more-info"

\* { ...defaults, ...obj }
Spread(defaults, obj) ==
  [k \in DOMAIN defaults \cup DOMAIN obj |->
     IF k \in DOMAIN obj THEN obj[k] ELSE defaults[k]]

\* setConfig on a card whose _config is cur: the new _config and the
\* message of the exception raised, "" if none
setConfig(cur, c) ==
  IF ~Has(c, "entity") \/ c.entity = <<>>
  THEN [config |-> cur, exc |-> ConfigError]
  ELSE [config |->
          <<Spread(("tap_action" :> Action("more-info"))
                     @@ ("icon_tap_action" :>
                           Action(getEntityDefaultTileIconAction(c.entity))),
                   c)>>,
        exc |-> ""]

Truthy(o) == Len(o) = 1 /\ o[1] = TRUE

getCardSize(cur) ==
  1 + (IF Truthy(Prop(cur, "vertical")) THEN 1 ELSE 0)
    + (IF Len(Prop(cur, "features")) = 1
       THEN Len(Prop(cur, "features")[1]) ELSE 0)

\* variant: the vertical layout adds no row
getLayoutOptions_FlatVertical(cur) ==
  LET features == Prop(cur, "features")
      rows == IF Len(features) = 1 /\ Len(features[1]) > 0
              THEN 1 + Len(features[1]) ELSE 1
  IN  [grid_columns |-> 2, grid_rows |-> rows, grid_min_rows |-> rows,
       grid_min_columns |-> IF Truthy(Prop(cur, "vertical")) THEN 1 ELSE 2]

getLayoutOptions(cur) ==
  LET features == Prop(cur, "features")
      rows1 == IF Len(features) = 1 /\ Len(features[1]) > 0
               THEN 1 + Len(features[1]) ELSE 1
      vertical == Truthy(Prop(cur, "vertical"))
      grid_rows == IF vertical THEN rows1 + 1 ELSE rows1
  IN  [grid_columns |-> 2, grid_rows |-> grid_rows,
       grid_min_rows |-> grid_rows,
       grid_min_columns |-> IF vertical THEN 1 ELSE 2]

\* an action is configured and is not "none"
hasAction(actionConfig) ==
  Len(actionConfig) = 1 /\ actionConfig[1].action # "none"

hasCardAction(cur) ==
  \/ Len(Prop(cur, "tap_action")) = 0
  \/ hasAction(Prop(cur, "tap_action"))
  \/ hasAction(Prop(cur, "hold_action"))
  \/ hasAction(Prop(cur, "double_tap_action"))

hasIconAction(cur) ==
  \/ Len(Prop(cur, "icon_tap_action")) = 0
  \/ hasAction(Prop(cur, "icon_tap_action"))

stateActive(entity) == entity.state = "on"

\* a display colour: kind says where it comes from
Colour(kind, of) == [kind |-> kind, of |-> of]

computeCssColor(color) == Colour("css", <<color>>)

stateColorCss(entity) ==
  IF stateActive(entity)
  THEN <<Colour("state", <<computeDomain(entity.entity_id)[1]>>)>>
  ELSE <<>>

Max3(a, b, c) ==
  IF a >= b /\ a >= c THEN a ELSE IF b >= c THEN b ELSE c

Min3(a, b, c) ==
  IF a <= b /\ a <= c THEN a ELSE IF b <= c THEN b ELSE c

\* hue in degrees (of the strongest channel), saturation in hundredths,
\* value
rgb2hsv(rgb) ==
  LET max == Max3(rgb[1], rgb[2], rgb[3])
      min == Min3(rgb[1], rgb[2], rgb[3])
  IN  << IF max = min \/ max = rgb[1] THEN 0
         ELSE IF max = rgb[2] THEN 120 ELSE 240,
         IF max = 0 THEN 0 ELSE ((max - min) * 100) \div max,
         max >>

\* rgb2hex(hsv2rgb(hsv))
hsv2hex(hsv) == Colour("hex", hsv)

\* variant: the light's own colour comes first
_computeStateColor_LightFirst(entity, color) ==
  IF computeDomain(entity.entity_id) = <<"light">>
     /\ Has(entity.attributes, "rgb_color")
  THEN <<hsv2hex(rgb2hsv(entity.attributes.rgb_color))>>
  ELSE IF Len(color) = 1
  THEN IF stateActive(entity) THEN <<computeCssColor(color[1])>> ELSE <<>>
  ELSE stateColorCss(entity)

_computeStateColor(entity, color) ==
  IF Len(color) = 1
  THEN IF stateActive(entity) THEN <<computeCssColor(color[1])>> ELSE <<>>
  ELSE IF computeDomain(entity.entity_id) \in {<<"person">>,
                                               <<"device_tracker">>}
  THEN <<>>
  ELSE IF computeDomain(entity.entity_id) = <<"light">>
          /\ Has(entity.attributes, "rgb_color")
  THEN LET hsvColor == rgb2hsv(entity.attributes.rgb_color)
           adjusted ==
             IF hsvColor[2] < 40
             THEN IF hsvColor[2] < 10
                  THEN <<hsvColor[1], hsvColor[2], 225>>
                  ELSE <<hsvColor[1], 40, hsvColor[3]>>
             ELSE hsvColor
       IN  <<hsv2hex(adjusted)>>
  ELSE stateColorCss(entity)

\* What render returns: kind is "nothing", "not-found" or "card"; the
\* roles are <<>> when the attribute is left out; surfaceAction and
\* iconAction say whether an action handler is bound.
Rendered(kind, primary, vertical, sRole, sAction, iRole, iAction, color) ==
  [kind |-> kind, primary |-> primary, vertical |-> vertical,
   surfaceRole |-> sRole, surfaceAction |-> sAction,
   iconRole |-> iRole, iconAction |-> iAction, color |-> color]

\* variant: the placeholder keeps the surface of the card
render_PlaceholderWithSurface(cur, h) ==
  IF Len(cur) = 0 \/ Len(h) = 0
  THEN Rendered("nothing", <<>>, FALSE, <<>>, FALSE, <<>>, FALSE, <<>>)
  ELSE
    LET entityId == cur[1].entity
        vertical == Truthy(Prop(cur, "vertical"))
    IN  IF ~Has(h[1].states, entityId)
        THEN Rendered("not-found", entityId, vertical,
                      IF hasCardAction(cur) THEN <<"button">> ELSE <<>>, TRUE,
                      <<>>, FALSE, <<>>)
        ELSE Rendered("card", entityId, vertical,
                      IF hasCardAction(cur) THEN <<"button">> ELSE <<>>, TRUE,
                      IF hasIconAction(cur) THEN <<"button">> ELSE <<>>, TRUE,
                      _computeStateColor(h[1].states[entityId],
                                         Prop(cur, "color")))

render(cur, h) ==
  IF Len(cur) = 0 \/ Len(h) = 0
  THEN Rendered("nothing", <<>>, FALSE, <<>>, FALSE, <<>>, FALSE, <<>>)
  ELSE
    LET entityId == cur[1].entity
        vertical == Truthy(Prop(cur, "vertical"))
    IN  IF ~Has(h[1].states, entityId)
        THEN Rendered("not-found", entityId, vertical,
                      <<>>, FALSE, <<>>, FALSE, <<>>)
        ELSE Rendered("card", entityId, vertical,
                      IF hasCardAction(cur) THEN <<"button">> ELSE <<>>, TRUE,
                      IF hasIconAction(cur) THEN <<"button">> ELSE <<>>, TRUE,
                      _computeStateColor(h[1].states[entityId],
                                         Prop(cur, "color")))

\* ------------------------------------------------------------------------
\* Actions on the tile card

Called(op, arg, ret, exc) ==
  tileCall' = [op |-> op, arg |-> arg, ret |-> ret, exc |-> exc]

\* the owner passes its configuration, or one without entity id
TileSetConfig ==
  \E c \in {tileInput} \cup TileNoEntity :
    LET r == setConfig(_config, c)
    IN  /\ _config' = r.config
        /\ Called("setConfig", <<c>>, <<>>, r.exc)
        /\ UNCHANGED <<tileInput, tileHass>>
        /\ UNCHANGED hostVars

TileSetHass ==
  \E h \in TileHassValues :
    /\ tileHass # <<h>>
    /\ tileHass' = <<h>>
    /\ Called("set hass", <<>>, <<>>, "")
    /\ UNCHANGED <<tileInput, _config>>
    /\ UNCHANGED hostVars

TileGetCardSize ==
  /\ Called("getCardSize", <<>>, <<getCardSize(_config)>>, "")
  /\ UNCHANGED <<tileInput, _config, tileHass>>
  /\ UNCHANGED hostVars

TileGetLayoutOptions ==
  /\ Called("getLayoutOptions", <<>>, <<getLayoutOptions(_config)>>, "")
  /\ UNCHANGED <<tileInput, _config, tileHass>>
  /\ UNCHANGED hostVars

TileRender ==
  /\ Called("render", <<>>, <<render(_config, tileHass)>>, "")
  /\ UNCHANGED <<tileInput, _config, tileHass>>
  /\ UNCHANGED hostVars

InitTile ==
  /\ HostInit
  /\ mq = FALSE
  /\ tileInput \in TileConfigs
  /\ TileIdle

NextTile ==
  \/ TileSetConfig
  \/ TileSetHass
  \/ TileGetCardSize
  \/ TileGetLayoutOptions
  \/ TileRender

SpecTile == InitTile /\ [][NextTile]_vars

\* ------------------------------------------------------------------------
\* Properties

\* the payloads of the card-visibility-changed events of a trace
VisEvents(tr) ==
  LET ev == SelectSeq(tr, LAMBDA e : e.op = "fire"
                                      /\ e.val = "card-visibility-changed")
  IN  [i \in 1..Len(ev) |-> ev[i].flag]

Last(s) == s[Len(s)]

\* changedProps of the update cycle a step runs
StepChangedProps ==
  IF pending THEN dirty
  ELSE (IF config' # config THEN {"config"} ELSE {})
         \cup (IF hass' # hass THEN {"hass"} ELSE {})
         \cup (IF preview' # preview THEN {"preview"} ELSE {})

\* the step is an update cycle
IsUpdateStep == started /\ handler'.name = "update"

\* the host's state when update starts in an update step
AtUpdate == [Cur EXCEPT !.config = config', !.hass = hass',
                        !.preview = preview']

\* C1: an update cycle whose changedProps has config, run while a child
\* exists and the configuration is present and not the one last applied,
\* creates a new instance from the configuration (replacing the child) if
\* and only if its type differs from the type of the configuration last
\* applied or preview is on; otherwise the configuration change creates
\* nothing and the child receives exactly one setConfig with it (and stays
\* the host's instance unless a failed state push of the same cycle
\* replaces it by the error card).
C1_Step ==
  (/\ IsUpdateStep
   /\ _element # 0
   /\ "config" \in StepChangedProps
   /\ config' # NoConfig
   /\ config' # _elementConfig)
  =>
  LET recreate == config'.type # _elementConfig.type \/ preview'
      made == SelectSeq(trace', LAMBDA e : e.op = "create"
                                          /\ e.site = "update.config")
      other == SelectSeq(trace', LAMBDA e : e.op = "create"
                                           /\ e.site # "update.config")
      sets == Entries(trace', "setConfig")
  IN  IF recreate
      THEN /\ Len(made) = 1
           /\ trace'[1] = made[1]
           /\ made[1].cfg = config'
           /\ made[1].el = Len(instances) + 1
           /\ _element' # _element
           /\ sets = <<>>
      ELSE /\ made = <<>>
           /\ Len(sets) = 1
           /\ trace'[1] = sets[1]
           /\ sets[1].el = _element
           /\ sets[1].cfg = config'
           /\ \A i \in 1..Len(other) : other[i].site = "update.hass"
           /\ other = <<>> => _element' = _element

C1_RecreateIffTypeOrPreview == [][C1_Step]_vars

\* an in-place configuration update has been applied to instance 1
C1_Witness ==
  /\ handler.name = "update"
  /\ _element = 1
  /\ \E i \in 1..Len(trace) :
       /\ trace[i].op = "setConfig" /\ trace[i].flag
       /\ trace[i].el = 1 /\ trace[i].cfg = config
  /\ card.cfg = config

\* C2: after a handler that recomputed visibility (child and state
\* present), the host is hidden if the child is hidden; otherwise it is
\* visible exactly if the last evaluation was forced, or preview is on, or
\* the configuration has no visibility key, or the conditions hold.
C2_VisibilityAlgorithm ==
  Entries(trace, "vis") # <<>> =>
    LET forced == Last(Entries(trace, "vis")).flag
    IN  /\ card.hidden => hidden
        /\ ~card.hidden =>
             (~hidden <=>
                \/ forced
                \/ preview
                \/ ~config.hasVis
                \/ checkConditionsMet(config.visibility, hass, mq))

\* a forced evaluation on a child that reports itself hidden
C2_Witness ==
  /\ Entries(trace, "vis") # <<>>
  /\ Last(Entries(trace, "vis")).flag
  /\ card.hidden
  /\ hidden

\* C3: a handler emits card-visibility-changed once, with the new status,
\* when the host's visible/hidden status differs before and after it, and
\* not at all when the status is the same.
C3_Step ==
  VisEvents(trace') = IF hidden' # hidden THEN <<~hidden'>> ELSE <<>>

C3_OneEventPerTransition == [][C3_Step]_vars

\* the host became visible again and said so once
C3_Witness ==
  /\ VisEvents(trace) = <<TRUE>>
  /\ ~hidden
  /\ Len(Entries(trace, "vis")) > 0

\* C4: when the host's child fires ll-rebuild, the new instance is created
\* from the configuration the child holds (the applied configuration), and
\* card-updated is fired last.
C4_Step ==
  (handler'.name = "ll-rebuild" /\ handler'.el = _element /\ escaped' = "")
  =>
  /\ _element' = Len(instances) + 1
  /\ _elementConfig' = _elementConfig
  /\ card'.cfg = _elementConfig
  /\ Last(trace').op = "fire" /\ Last(trace').val = "card-updated"

C4_RebuildFromHeldConfig == [][C4_Step]_vars

\* C5: every registered media-query listener was attached for the
\* visibility conditions of the host's current configuration.
C5_NoListenerOfSupersededConditions ==
  \A i \in 1..Len(subs) :
    config.hasVis /\ subs[i].conds = config.visibility

\* C6: the registered listeners are exactly the ones whose handles the host
\* holds, each once; no handle is ever called twice; a disconnected host
\* holds none and none is registered.
C6_ListenersReleased ==
  /\ {subs[i].id : i \in 1..Len(subs)} = Range(_listeners)
  /\ Len(subs) = Len(_listeners)
  /\ Cardinality(Range(_listeners)) = Len(_listeners)
  /\ ~dblUnsub
  /\ ~connected => (_listeners = <<>> /\ subs = <<>>)

\* a disconnect that unsubscribed a listener
C6_Witness ==
  /\ handler.name = "disconnect"
  /\ Entries(trace, "unsub") # <<>>
  /\ subs = <<>>
  /\ _listeners = <<>>

\* C7: after a handler in which a configuration was rejected (by setConfig
\* in place, or when the instance was created), nothing escaped and the
\* host holds an error card with the message.
C7_RejectedConfigShowsErrorCard ==
  (\E i \in 1..Len(trace) :
     trace[i].op \in {"create", "setConfig"} /\ ~trace[i].flag)
  =>
  /\ escaped = ""
  /\ card.type = "error"
  /\ card.error = ConfigError

\* C8: an update cycle whose changedProps has hass, started with a child
\* and reaching the state stanza: with hass absent nothing is pushed; with
\* hass present it is pushed once into the child; if the child raises, a
\* new error card built from the message replaces it, the error
\* configuration is the applied one, and nothing escapes.
C8_Step ==
  (/\ IsUpdateStep
   /\ _element # 0
   /\ "hass" \in StepChangedProps
   /\ UpdateConfig(AtUpdate, StepChangedProps).exc = "")
  =>
  LET pushes == SelectSeq(trace', LAMBDA e : e.op = "hass"
                                            /\ e.site = "update")
      caught == SelectSeq(trace', LAMBDA e : e.op = "create"
                                            /\ e.site = "update.hass")
  IN  IF hass' = NoHass
      THEN Entries(trace', "hass") = <<>> /\ caught = <<>>
      ELSE /\ Len(pushes) = 1
           /\ pushes[1].val = hass'
           /\ pushes[1].el = UpdateConfig(AtUpdate, StepChangedProps).element
           /\ escaped' = ""
           /\ pushes[1].flag => caught = <<>>
           /\ ~pushes[1].flag =>
                /\ Len(caught) = 1
                /\ caught[1].cfg = createErrorCardConfig(HassError)
                /\ _element' = caught[1].el
                /\ _element' = Len(instances')
                /\ _element' # pushes[1].el
                /\ card'.type = "error"
                /\ card'.error = HassError
                /\ _elementConfig' = createErrorCardConfig(HassError)

C9_EveryPushGuarded ==
  (\E i \in 1..Len(trace) : trace[i].op = "hass" /\ ~trace[i].flag)
  =>
  /\ escaped = ""
  /\ card.type = "error"

\* C10: with a configuration without visibility conditions, state present
\* and a child that does not report itself hidden, the host is visible.
C10_NoConditionsVisible ==
  (/\ config # NoConfig
   /\ ~config.hasVis
   /\ hass # NoHass
   /\ _element # 0
   /\ ~card.hidden)
  => ~hidden

\* C11: load() without a configuration raises and leaves the child, the
\* applied configuration and the render tree as they were; with a
\* configuration it creates a new instance from it, records it as the
\* applied configuration, and no child attached before is attached after.
C11_Step ==
  handler'.name = "load" =>
    IF config = NoConfig
    THEN /\ escaped' = LoadError
         /\ UNCHANGED <<_element, card, _elementConfig, children, instances>>
    ELSE /\ _element' = Len(instances) + 1
         /\ Len(instances') = Len(instances) + 1
         /\ card'.cfg = config
         /\ _elementConfig' = config
         /\ \A c \in Range(children) : c \notin Range(children')

C11_LoadCreatesAndDetaches == [][C11_Step]_vars

\* C12: when an instance fires ll-upgrade and the host's listener on it has
\* not run yet, the host pushes the present state into that instance and
\* then fires card-updated, and nothing else; the listener of an instance,
\* once it has run, is never armed again.
C12_Step ==
  /\ handler'.name = "ll-upgrade" =>
       LET e == handler'.el
           push == IF hass = NoHass THEN <<>>
                   ELSE <<Entry("hass", e, NoConfig, hass, TRUE, "upgrade")>>
       IN  /\ instances[e].up
           /\ trace' = push \o <<Entry("fire", 0, NoConfig,
                                       "card-updated", TRUE, "")>>
           /\ escaped' = ""
  /\ \A e \in 1..Len(instances) :
       (instances[e].on /\ ~instances[e].up) => ~instances'[e].up

C12_UpgradePushesOnceThenNotifies == [][C12_Step]_vars

\* the visibility algorithm, unforced, on the host's state
ShouldBeVisible(c, h, p, m, childHidden) ==
  /\ ~childHidden
  /\ (p \/ ~c.hasVis \/ checkConditionsMet(c.visibility, h, m))

\* C13: after the host's child has fired card-visibility-changed, and after
\* an update cycle whose changedProps has hass or preview, with a child and
\* state present, the host is hidden exactly if the visibility algorithm on
\* the configuration, state, preview flag and child hidden flag says so.
C13_Step ==
  (/\ \/ handler'.name = "card-visibility-changed" /\ handler'.el = _element'
      \/ IsUpdateStep /\ "hass" \in StepChangedProps
      \/ IsUpdateStep /\ "preview" \in StepChangedProps
   /\ _element' # 0
   /\ hass' # NoHass)
  =>
  (hidden' <=> ~ShouldBeVisible(config', hass', preview', mq', card'.hidden))

C13_RecomputedOnEachTrigger == [][C13_Step]_vars

\* C14: the host's child nodes are at most one node, and no instance but
\* the host's current one; with state present and no update cycle pending,
\* the current instance is among them exactly if the host is not hidden.
C14_SingleAttachedChild ==
  /\ Len(children) <= 1
  /\ \A c \in Range(children) : c = _element
  /\ (hass # NoHass /\ _element # 0 /\ ~pending) =>
       (_element \in Range(children) <=> ~hidden)

\* C19: an event fired by an instance that is no longer the host's child
\* leaves the host's child and the applied configuration as they are and
\* fires no card-updated.
C19_Step ==
  (/\ handler'.name \in {"ll-rebuild", "ll-upgrade", "card-visibility-changed"}
   /\ handler'.el # _element)
  =>
  /\ _element' = _element
  /\ card' = card
  /\ _elementConfig' = _elementConfig
  /\ \A i \in 1..Len(trace') :
       ~(trace'[i].op = "fire" /\ trace'[i].val = "card-updated")

C19_LateEventsIgnored == [][C19_Step]_vars

\* C20: after an update cycle, a child event or connectedCallback, with a
\* child and state present, the host is hidden exactly if the visibility
\* algorithm, on the current configuration's conditions, the state, the
\* preview flag and the child's hidden flag, says not visible.
C20_Step ==
  (/\ \/ IsUpdateStep
      \/ handler'.name \in {"ll-rebuild", "ll-upgrade",
                            "card-visibility-changed", "connect"}
   /\ _element' # 0
   /\ hass' # NoHass)
  =>
  (hidden' <=> ~ShouldBeVisible(config', hass', preview', mq', card'.hidden))

C20_HiddenMatchesAlgorithm == [][C20_Step]_vars

\* the live state of the tile's configured entity, <<>> if there is none
TileStateObj ==
  IF Len(_config) = 1 /\ Len(tileHass) = 1
     /\ Has(tileHass[1].states, _config[1].entity)
  THEN <<tileHass[1].states[_config[1].entity]>>
  ELSE <<>>

\* C15: the tile's setConfig, given a configuration without entity id or
\* with an empty one, raises and leaves _config as it was; otherwise
\* _config has every key of the given configuration with its value, and
\* besides them only tap_action, "more-info" if not given, and
\* icon_tap_action, if not given "toggle" for an entity of a toggle domain
\* or a button, input_button or scene and "more-info" for any other.
C15_Step ==
  tileCall'.op = "setConfig" =>
    LET c == tileCall'.arg[1]
    IN  IF ~Has(c, "entity") \/ c.entity = <<>>
        THEN /\ tileCall'.exc = ConfigError
             /\ _config' = _config
        ELSE /\ tileCall'.exc = ""
             /\ Len(_config') = 1
             /\ DOMAIN _config'[1]
                  = DOMAIN c \cup {"tap_action", "icon_tap_action"}
             /\ \A k \in DOMAIN c : _config'[1][k] = c[k]
             /\ ~Has(c, "tap_action") =>
                  _config'[1].tap_action = Action("more-info")
             /\ ~Has(c, "icon_tap_action") =>
                  _config'[1].icon_tap_action =
                    Action(IF <<c.entity[1]>> \in
                                DOMAINS_TOGGLE \cup {<<"button">>,
                                                     <<"input_button">>,
                                                     <<"scene">>}
                           THEN "toggle" ELSE "more-info")

C15_SetConfigMergesOverDefaults == [][C15_Step]_vars

\* a configuration without entity id was refused by a tile that holds the
\* configuration of a scene with the default icon action
C15_Witness ==
  /\ tileCall.op = "setConfig"
  /\ tileCall.exc = ConfigError
  /\ Len(_config) = 1
  /\ _config[1].entity = EntityId("scene")
  /\ ~Has(tileInput, "icon_tap_action")
  /\ _config[1].icon_tap_action = Action("toggle")
  /\ _config[1].tap_action = Action("navigate")

\* C16: getCardSize returns 1, plus 1 if vertical, plus the number of
\* features; getLayoutOptions returns that number as grid_rows and as
\* grid_min_rows, 2 as grid_columns, and as grid_min_columns 1 if vertical
\* and 2 otherwise; with no configuration set as well.
C16_SizeAndLayout ==
  LET vertical == Len(_config) = 1 /\ Has(_config[1], "vertical")
                    /\ _config[1].vertical
      features == IF Len(_config) = 1 /\ Has(_config[1], "features")
                  THEN Len(_config[1].features) ELSE 0
      units == 1 + (IF vertical THEN 1 ELSE 0) + features
  IN  /\ tileCall.op = "getCardSize" => tileCall.ret[1] = units
      /\ tileCall.op = "getLayoutOptions" =>
           /\ tileCall.ret[1].grid_rows = units
           /\ tileCall.ret[1].grid_min_rows = tileCall.ret[1].grid_rows
           /\ tileCall.ret[1].grid_columns = 2
           /\ tileCall.ret[1].grid_min_columns = IF vertical THEN 1 ELSE 2

\* the layout of a vertical tile with two feature rows
C16_Witness ==
  /\ tileCall.op = "getLayoutOptions"
  /\ Len(_config) = 1
  /\ Has(_config[1], "vertical") /\ _config[1].vertical
  /\ Has(_config[1], "features") /\ Len(_config[1].features) = 2
  /\ tileCall.ret[1].grid_rows = 4
  /\ tileCall.ret[1].grid_min_columns = 1

\* C17: render on a tile with a configuration and hass, where hass has no
\* state of the configured entity, returns the not-found placeholder, with
\* no button role and no action handler on the surface or the icon.
C17_NotFoundHasNoAffordance ==
  (/\ tileCall.op = "render"
   /\ Len(_config) = 1
   /\ Len(tileHass) = 1
   /\ TileStateObj = <<>>)
  =>
  /\ tileCall.ret[1].kind = "not-found"
  /\ tileCall.ret[1].primary = _config[1].entity
  /\ tileCall.ret[1].surfaceRole = <<>>
  /\ ~tileCall.ret[1].surfaceAction
  /\ tileCall.ret[1].iconRole = <<>>
  /\ ~tileCall.ret[1].iconAction

\* the placeholder of a tile configured with a tap and a hold action
C17_Witness ==
  /\ tileCall.op = "render"
  /\ Len(_config) = 1
  /\ Len(tileHass) = 1
  /\ TileStateObj = <<>>
  /\ _config[1].tap_action = Action("navigate")
  /\ Has(_config[1], "hold_action")
  /\ tileCall.ret[1].kind = "not-found"

\* C18: in the colour render computes for a live entity, a configured
\* color decides alone: the result is its css colour if the entity is
\* active and none if it is not, also for a light with rgb_color; the
\* colour made from rgb_color is the result only with no color configured,
\* for a light that has rgb_color.
C18_OverrideColourFirst ==
  (tileCall.op = "render" /\ TileStateObj # <<>>)
  =>
  LET entity == TileStateObj[1]
      color == tileCall.ret[1].color
      isLight == entity.entity_id[1] = "light"
      hasRgb == Has(entity.attributes, "rgb_color")
      fromLight == Len(color) = 1 /\ color[1].kind = "hex"
  IN  /\ Has(_config[1], "color") =>
           /\ ~fromLight
           /\ IF entity.state = "on"
              THEN /\ Len(color) = 1
                   /\ color[1].kind = "css"
                   /\ color[1].of = <<_config[1].color>>
              ELSE color = <<>>
      /\ fromLight <=> (~Has(_config[1], "color") /\ isLight /\ hasRgb)

\* an active light with rgb_color rendered with the configured color
C18_Witness ==
  /\ tileCall.op = "render"
  /\ TileStateObj # <<>>
  /\ TileStateObj[1].entity_id = EntityId("light")
  /\ TileStateObj[1].state = "on"
  /\ Has(TileStateObj[1].attributes, "rgb_color")
  /\ Has(_config[1], "color")
  /\ Len(tileCall.ret[1].color) = 1
  /\ tileCall.ret[1].color[1].kind = "css"

\* the screen conditions of a list of conditions
ScreenConditions(conditions) ==
  SelectSeq(conditions, LAMBDA c : c = "screen")

\* C21: while the host is connected and its configuration has visibility
\* conditions, one media-query listener is registered for each screen
\* condition of that configuration and none for any other; and a
\* media-query callback evaluates visibility forced only if the
\* configuration's conditions are one screen condition and the query
\* matches.
C21_ListenersFollowConfiguration ==
  /\ (connected /\ config.hasVis) =>
       /\ Len(subs) = Len(ScreenConditions(config.visibility))
       /\ \A i \in 1..Len(subs) : subs[i].conds = config.visibility
  /\ handler.name = "media" =>
       \A i \in 1..Len(trace) :
         (trace[i].op = "vis" /\ trace[i].flag) =>
           /\ config.hasVis
           /\ config.visibility = <<"screen">>
           /\ mq

\* C22: the payloads of the card-visibility-changed events of a host
\* alternate, starting with FALSE.  The hidden attribute carries the
\* alternation from one handler to the next: the host starts not hidden;
\* in every handler the first payload is the value hidden had before it
\* (FALSE as long as nothing was fired), each further payload is the
\* negation of the one before, and hidden ends as the negation of the
\* last payload, unchanged if there was none.
C22_Step ==
  LET ev == VisEvents(trace')
  IN  /\ \A i \in 1..Len(ev) :
           ev[i] = IF i = 1 THEN hidden ELSE ~ev[i - 1]
      /\ hidden' = IF ev = <<>> THEN hidden ELSE ~Last(ev)

C22_PayloadsAlternateFromFalse == ~hidden /\ [][C22_Step]_vars

\* the first notification of a host: a state change hid it and detached
\* the child that had been shown without any notification
C22_Witness ==
  /\ handler.name = "update"
  /\ VisEvents(trace) = <<FALSE>>
  /\ hidden
  /\ _element # 0
  /\ children = <<>>
  /\ dblUnsub = FALSE
  /\ Len(instances) = 1

====
